---- MODULE Spec2Model ----
(***************************************************************************)
(* A model of the dependency-graph engine (graph_manager.py) and of the    *)
(* risk model built on it (f1b_optimizer.py).                               *)
(*                                                                         *)
(* Numbers: progress, volatility and a milestone's trigger_process are     *)
(* floats in the source; here they are integers in hundredths (100 = 1.0), *)
(* so volatility * 100 of the source is the volatility value itself.       *)
(* Fields that no operation reads for a decision (assigner, component_id,  *)
(* stage, expected_duration, switch_cost, target_support_id, created_at,   *)
(* updated_at) are left out of a Task; a task's name is its id.            *)
(***************************************************************************)
EXTENDS Integers, Sequences, FiniteSets, TLC

VARIABLES
    tasks,      \* self.tasks: id -> Task, for the ids in the store
    order,      \* key order of the self.tasks dict (insertion order)
    graph,      \* self.graph: [nodes: sequence of ids, edges: set of <<from, to>>]
    saved,      \* content of the storage file after the last save_file()
    ret,        \* the last call and what it returned
    called      \* ids whose completion was reported (kept by the closure scenario only)

vars == <<tasks, order, graph, saved, ret, called>>

(***************************************************************************)
(* models.py                                                               *)
(***************************************************************************)
HARDWARE == "hardware"
SOFTWARE == "software"
TeamType == {HARDWARE, SOFTWARE}

DONE == "done"
WAITING_FOR_VALIDATION == "waiting_for_validation"
IN_PROGRESS == "in_progress"
PENDING == "pending"
BLOCKED == "blocked"
TaskStatus == {DONE, WAITING_FOR_VALIDATION, IN_PROGRESS, PENDING, BLOCKED}

CRITICAL == "Critical"
INFRASTRUCTURE == "Infrastructure"
SUPPORT == "Support"
TaskCategory == {CRITICAL, INFRASTRUCTURE, SUPPORT}

\* MileStone(name, trigger_process): only trigger_process is ever read.
MileStone(trigger) == [trigger_process |-> trigger]

\* Task(...) with the defaults of the class for the fields not given.
Task(id, team, category, dependencies, status, progress, volatility, milestone) ==
    [id |-> id, team |-> team, category |-> category,
     dependencies |-> dependencies, status |-> status, progress |-> progress,
     volatility |-> volatility, milestone |-> milestone]

(***************************************************************************)
(* Helpers for Python's containers                                         *)
(***************************************************************************)
Range(s) == {s[i] : i \in DOMAIN s}

\* d[k] = v on a dict: a new key goes last, an existing key keeps its place.
DictPut(d, k, v) == [x \in (DOMAIN d) \cup {k} |-> IF x = k THEN v ELSE d[x]]
KeyPut(keys, k) == IF k \in Range(keys) THEN keys ELSE Append(keys, k)

(***************************************************************************)
(* The directed graph (networkx.DiGraph)                                   *)
(***************************************************************************)
Successors(g, n) == {e[2] : e \in {x \in g.edges : x[1] = n}}
Predecessors(g, n) == {e[1] : e \in {x \in g.edges : x[2] = n}}

RECURSIVE ReachFrom(_, _)
\* the nodes reachable from the set `seen` along edges, `seen` included
ReachFrom(g, seen) ==
    LET next == seen \cup UNION {Successors(g, n) : n \in seen}
    IN  IF next = seen THEN seen ELSE ReachFrom(g, next)

\* nx.descendants(G, source): every node reachable from source by one edge or more,
\* source itself never among them
Descendants(g, n) == ReachFrom(g, Successors(g, n)) \ {n}

\* nx.find_cycle(G) finds a directed cycle, a self-loop included
HasCycle(g) == \E n \in Range(g.nodes) : n \in ReachFrom(g, Successors(g, n))

(***************************************************************************)
(* graph_manager.py: DependencyGraph                                       *)
(*                                                                         *)
(* Every method is an operator from the object's fields to the fields      *)
(* after the call (and what the call returned); the actions further down   *)
(* apply them to the variables.                                            *)
(***************************************************************************)
NoIds == {}
EmptyDict == [x \in {} |-> x]
EmptyGraph == [nodes |-> <<>>, edges |-> {}]

\* save_file(): the whole task map, in dict order
Snapshot(ts, keys) == [tasks |-> ts, order |-> keys]

\* the fields of a DependencyGraph object
Object(ts, keys, g, file) == [tasks |-> ts, order |-> keys, graph |-> g, saved |-> file]

\* DependencyGraph() with no storage file: load_file() finds nothing
NewObject == Object(EmptyDict, <<>>, EmptyGraph, Snapshot(EmptyDict, <<>>))

\* add_task, lines 19-24: the copy of the graph with the node and with an edge
\* from every dependency that is in the store now
Candidate(self, task) ==
    [nodes |-> KeyPut(self.graph.nodes, task.id),
     edges |-> self.graph.edges \cup
               {<<task.dependencies[i], task.id>> :
                    i \in {j \in DOMAIN task.dependencies :
                               task.dependencies[j] \in DOMAIN self.tasks}}]

\* add_task, lines 33-35: the task and the candidate graph are committed and saved
Commit(self, task, temp_graph) ==
    LET ts == DictPut(self.tasks, task.id, task)
        keys == KeyPut(self.order, task.id)
    IN  Object(ts, keys, temp_graph, Snapshot(ts, keys))

\* add_task without the cycle check of lines 27-31
AddTaskCallUnchecked(self, task) ==
    [self |-> Commit(self, task, Candidate(self, task)), ok |-> TRUE]

\* add_task with line 33 moved before the cycle check: a rejected task is
\* left in the task map
AddTaskCallStoresFirst(self, task) ==
    LET temp_graph == Candidate(self, task) IN
    IF HasCycle(temp_graph)
    THEN [self |-> [self EXCEPT !.tasks = DictPut(self.tasks, task.id, task)],
          ok |-> FALSE]
    ELSE [self |-> Commit(self, task, temp_graph), ok |-> TRUE]

\* add_task(task): the object after the call, and the boolean returned
AddTaskCall(self, task) ==
    LET temp_graph == Candidate(self, task) IN
    IF HasCycle(temp_graph)
    THEN [self |-> self, ok |-> FALSE]
    ELSE [self |-> Commit(self, task, temp_graph), ok |-> TRUE]

\* get_ready_tasks, lines 76-84: the dependency no longer holds its successor back
DependencyMet(dep_task) ==
    \/ dep_task.status = DONE
    \/ dep_task.status = WAITING_FOR_VALIDATION
    \/ /\ Len(dep_task.milestone) > 0
       /\ dep_task.milestone[1].trigger_process # 0       \* truthiness of a float
       /\ dep_task.progress >= dep_task.milestone[1].trigger_process

\* get_ready_tasks, lines 59-92, for one node
IsReadyIn(self, task_id) ==
    /\ task_id \in DOMAIN self.tasks
    /\ self.tasks[task_id].status \notin {DONE, IN_PROGRESS, WAITING_FOR_VALIDATION}
    /\ \A dep \in Predecessors(self.graph, task_id) :
           dep \in DOMAIN self.tasks /\ DependencyMet(self.tasks[dep])

\* lines 119-123 and 150-154 with all_validators_done left at True: the
\* validators are never looked at
AllValidatorsDoneUnchecked(g, ts, node) == TRUE

\* update_task_progress, lines 110-123 and 141-154: every successor of the node
\* that is in the store and owned by SOFTWARE is DONE
AllValidatorsDone(g, ts, node) ==
    \A s \in Successors(g, node) :
        (s \in DOMAIN ts /\ ts[s].team = SOFTWARE) => ts[s].status = DONE

\* update_task_progress without the loop of lines 137-157: a SOFTWARE task
\* that becomes DONE closes no HARDWARE dependency
CloseValidationSkipped(g, ts, deps, i) == ts

\* update_task_progress, lines 137-157: the loop over the dependencies of a
\* SOFTWARE task that became DONE, from position i on
RECURSIVE CloseValidation(_, _, _, _)
CloseValidation(g, ts, deps, i) ==
    IF i > Len(deps) THEN ts
    ELSE LET dep == deps[i] IN
         IF /\ dep \in DOMAIN ts
            /\ ts[dep].team = HARDWARE
            /\ AllValidatorsDone(g, ts, dep)
         THEN CloseValidation(
                  g, [ts EXCEPT ![dep].status = DONE, ![dep].volatility = 0],
                  deps, i + 1)
         ELSE CloseValidation(g, ts, deps, i + 1)

\* update_task_progress with lines 119-129 reduced to lines 126-127: a
\* HARDWARE task reported DONE is finalized whatever its validators say
HardwareDoneUnvalidated(g, ts, task_id) ==
    [ts EXCEPT ![task_id].status = DONE, ![task_id].volatility = 0]

\* update_task_progress, lines 109-129: a HARDWARE task reported DONE
HardwareDone(g, ts, task_id) ==
    IF AllValidatorsDone(g, ts, task_id)
    THEN [ts EXCEPT ![task_id].status = DONE, ![task_id].volatility = 0]
    ELSE [ts EXCEPT ![task_id].status = WAITING_FOR_VALIDATION]

\* update_task_progress with line 135 run for every status: any new status
\* retires the task's volatility
ApplyStatusRetiresRisk(g, ts, task_id, new_status) ==
    [ts EXCEPT ![task_id].status = new_status, ![task_id].volatility = 0]

\* update_task_progress, lines 105-159, for a status string that is a TaskStatus
ApplyStatus(g, ts, task_id, new_status) ==
    LET t1 == [ts EXCEPT ![task_id].status = new_status]
        t2 == IF new_status = DONE /\ t1[task_id].team = HARDWARE
              THEN HardwareDone(g, t1, task_id)
              ELSE t1
    IN  IF new_status = DONE /\ t2[task_id].team = SOFTWARE
        THEN CloseValidation(g, [t2 EXCEPT ![task_id].volatility = 0],
                             t2[task_id].dependencies, 1)
        ELSE t2

\* update_task_progress, line 103: the progress is stored before the status
\* string is looked at
StoreProgress(ts, task_id, progress) == [ts EXCEPT ![task_id].progress = progress]

\* update_task_progress(task_id, progress, status_str): the object after the call
UpdateTaskProgressCall(self, task_id, progress, status_str) ==
    IF task_id \in DOMAIN self.tasks
    THEN LET t0 == StoreProgress(self.tasks, task_id, progress)
             ts == IF status_str \in TaskStatus
                   THEN ApplyStatus(self.graph, t0, task_id, status_str)
                   ELSE t0                          \* ValueError, swallowed
         IN  Object(ts, self.order, self.graph, Snapshot(ts, self.order))
    ELSE self

\* update_task_volatility(task_id, new_volatility): the object after the call
UpdateTaskVolatilityCall(self, task_id, new_volatility) ==
    IF task_id \in DOMAIN self.tasks
    THEN LET ts == [self.tasks EXCEPT ![task_id].volatility = new_volatility]
         IN  Object(ts, self.order, self.graph, Snapshot(ts, self.order))
    ELSE self

\* reset_downstream_tasks with graph.successors in place of nx.descendants
\* on line 176: only the direct successors are looked at
ResetSetDirect(self, task_id) ==
    {d \in Successors(self.graph, task_id) :
        /\ d \in DOMAIN self.tasks
        /\ (self.tasks[d].progress > 0 \/ self.tasks[d].status = DONE)}

\* reset_downstream_tasks, line 181: the descendants that are reset
ResetSet(self, task_id) ==
    {d \in Descendants(self.graph, task_id) :
        /\ d \in DOMAIN self.tasks
        /\ (self.tasks[d].progress > 0 \/ self.tasks[d].status = DONE)}

\* reset_downstream_tasks(task_id): the object after the call, whether the call
\* raised, and the ids returned.  nx.descendants raises NetworkXError for a
\* node that is not in the graph, and the method does not catch it.
ResetDownstreamTasksCall(self, task_id) ==
    IF task_id \notin Range(self.graph.nodes)
    THEN [self |-> self, raised |-> TRUE, val |-> NoIds]
    ELSE LET reset_tasks == ResetSet(self, task_id)
             ts == [d \in DOMAIN self.tasks |->
                      IF d \in reset_tasks
                      THEN [self.tasks[d] EXCEPT !.progress = 0, !.status = PENDING]
                      ELSE self.tasks[d]]
         IN  [self |-> Object(ts, self.order, self.graph,
                              IF reset_tasks # {} THEN Snapshot(ts, self.order)
                                                  ELSE self.saved),
              raised |-> FALSE, val |-> reset_tasks]

RECURSIVE LoadFrom(_, _, _)
\* load_file, lines 207-214: the object after the records of the file from
\* position i on are read into self.  A record is in self.tasks before its own
\* dependencies are looked up.
LoadFrom(self, file, i) ==
    IF i > Len(file.order) THEN self
    ELSE LET tid == file.order[i]
             task == file.tasks[tid]
             ts == DictPut(self.tasks, tid, task)
             keys == KeyPut(self.order, tid)
             nodes == KeyPut(self.graph.nodes, tid)
             edges == self.graph.edges \cup
                          {<<dep, tid>> : dep \in Range(task.dependencies) \cap DOMAIN ts}
         IN  LoadFrom(Object(ts, keys, [nodes |-> nodes, edges |-> edges], file),
                      file, i + 1)

\* DependencyGraph(storage_file), lines 9-13, on a storage file with the
\* content file
Constructed(file) == LoadFrom(Object(EmptyDict, <<>>, EmptyGraph, file), file, 1)

(***************************************************************************)
(* f1b_optimizer.py: the risk model                                        *)
(***************************************************************************)
Min(a, b) == IF a < b THEN a ELSE b

RECURSIVE SumVolatility(_, _, _)
\* calculate_scrap_risk_score, lines 34-37, from position i of the list on
SumVolatility(ts, deps, i) ==
    IF i > Len(deps) THEN 0
    ELSE (IF deps[i] \in DOMAIN ts THEN ts[deps[i]].volatility ELSE 0)
         + SumVolatility(ts, deps, i + 1)

CalculateScrapRiskScore(ts, task) ==
    IF task.category = INFRASTRUCTURE THEN 0
    ELSE IF task.team = SOFTWARE THEN 0
    ELSE Min(SumVolatility(ts, task.dependencies, 1), 100)

\* classify_task_direction(task)
ClassifyTaskDirection(task) ==
    IF task.category = SUPPORT THEN "SUPPORT"
    ELSE IF task.team = HARDWARE THEN "FORWARD"
    ELSE "BACKWARD"

RECURSIVE InventoryFromUnfinished(_, _, _)
\* calculate_risk_inventory with line 48 skipping WAITING_FOR_VALIDATION as
\* well as DONE: a hardware task stops counting once it is physically finished
InventoryFromUnfinished(ts, keys, i) ==
    IF i > Len(keys) THEN 0
    ELSE LET task == ts[keys[i]] IN
         (IF /\ task.team = HARDWARE
             /\ task.status \notin {DONE, WAITING_FOR_VALIDATION}
             /\ task.category \notin {SUPPORT, INFRASTRUCTURE}
          THEN task.volatility ELSE 0)
         + InventoryFromUnfinished(ts, keys, i + 1)

RECURSIVE InventoryFrom(_, _, _)
\* calculate_risk_inventory, lines 46-53, from position i of the task list on
InventoryFrom(ts, keys, i) ==
    IF i > Len(keys) THEN 0
    ELSE LET task == ts[keys[i]] IN
         (IF /\ task.team = HARDWARE
             /\ task.status # DONE
             /\ task.category \notin {SUPPORT, INFRASTRUCTURE}
          THEN task.volatility ELSE 0)
         + InventoryFrom(ts, keys, i + 1)

\* calculate_risk_inventory()
CalculateRiskInventory(self) == InventoryFrom(self.tasks, self.order, 1)

\* calculate_downstream_dependencies(task_id): the tasks of the store that
\* list task_id among their dependencies and are not DONE
CalculateDownstreamDependencies(self, task_id) ==
    Cardinality({id \in DOMAIN self.tasks :
                    /\ task_id \in Range(self.tasks[id].dependencies)
                    /\ self.tasks[id].status # DONE})

Max(S) == CHOOSE m \in S : \A x \in S : x <= m

\* get_target_hw_impact(sw_task), lines 98-108
GetTargetHwImpact(self, sw_id) ==
    Max({-1} \cup
        {CalculateDownstreamDependencies(self, hw_id) :
            hw_id \in {d \in Range(self.tasks[sw_id].dependencies) :
                          d \in DOMAIN self.tasks /\ self.tasks[d].team = HARDWARE}})

\* one step of a stable sort by falling key: x goes behind every element whose
\* key is at least its own
InsertByKey(sorted, x, key) ==
    LET ahead == Cardinality({i \in DOMAIN sorted : key[sorted[i]] >= key[x]})
    IN  SubSeq(sorted, 1, ahead) \o <<x>> \o SubSeq(sorted, ahead + 1, Len(sorted))

\* list.sort and sorted left out: the list as it was
SortedDescendingSkipped(list, key) == list

RECURSIVE SortFrom(_, _, _, _)
SortFrom(sorted, list, key, i) ==
    IF i > Len(list) THEN sorted
    ELSE SortFrom(InsertByKey(sorted, list[i], key), list, key, i + 1)

\* sorted(list, key=.., reverse=True) and list.sort(key=lambda t: -..): the
\* highest key first, equal keys in the order of the list
SortedDescending(list, key) == SortFrom(<<>>, list, key, 1)

\* the ids of a queue of tasks with the key of each
ImpactOfTarget(self, queue) == [id \in Range(queue) |-> GetTargetHwImpact(self, id)]
ImpactOfTask(self, queue) ==
    [id \in Range(queue) |-> CalculateDownstreamDependencies(self, id)]

\* Optional[..]: None, or the value
None == <<>>
Some(x) == <<x>>

\* get_swarming_backward_task without the sort of line 110: the head of the
\* queue as it was passed
GetSwarmingBackwardTaskUnsorted(self, backward_queue) ==
    IF Len(backward_queue) = 0 THEN None ELSE Some(backward_queue[1])

\* get_swarming_backward_task(backward_queue): the task chosen (its id), or None
GetSwarmingBackwardTask(self, backward_queue) ==
    IF Len(backward_queue) = 0 THEN None
    ELSE Some(SortedDescending(backward_queue, ImpactOfTarget(self, backward_queue))[1])

\* get_ready_tasks() on the object self: the ready tasks (their ids) in node order
ReadyTasksOf(self) == SelectSeq(self.graph.nodes, LAMBDA id : IsReadyIn(self, id))

\* the ready tasks that classify_task_direction sends to one queue
QueueOf(self, direction) ==
    SelectSeq(ReadyTasksOf(self),
              LAMBDA id : ClassifyTaskDirection(self.tasks[id]) = direction)

\* run_scheduler, lines 147 and 166: the task the swarming step of the report
\* chooses, from the backward queue as line 147 has sorted it
SwarmingStepSelects(self) ==
    LET backward_queue == QueueOf(self, "BACKWARD") IN
    GetSwarmingBackwardTask(
        self, SortedDescending(backward_queue, ImpactOfTask(self, backward_queue)))

RECURSIVE FirstInStore(_, _, _, _)
\* lines 81-85 and 170-174: the first id of the list, from position i on, that
\* is in the store; default when there is none
FirstInStore(ts, deps, i, default) ==
    IF i > Len(deps) THEN default
    ELSE IF deps[i] \in DOMAIN ts THEN deps[i]
    ELSE FirstInStore(ts, deps, i + 1, default)

\* target_hw_name for the chosen task: the name of the first of its
\* dependencies that is in the store
TargetHwName(self, sw_id, default) ==
    FirstInStore(self.tasks, self.tasks[sw_id].dependencies, 1, default)

\* get_swarming_recommendation(), lines 79-87: None, or the task that the
\* recommended action says is validated
GetSwarmingRecommendationAction(self) ==
    LET target_sw == GetSwarmingBackwardTask(self, QueueOf(self, "BACKWARD")) IN
    IF target_sw = None THEN None
    ELSE Some(TargetHwName(self, target_sw[1], "Hardware"))

\* get_swarming_recommendation(): None, or the name of the task chosen (line 88)
GetSwarmingRecommendation(self) ==
    GetSwarmingBackwardTask(self, QueueOf(self, "BACKWARD"))

\* one line of the report of run_scheduler: the sign it begins with, the lane
\* it belongs to, what it is, the task it names, the action and the tag it
\* gives (for a line of the swarming recommendation, the bottleneck it names)
Line(icon, lane, kind, id, action, tag) ==
    [icon |-> icon, lane |-> lane, kind |-> kind, id |-> id,
     action |-> action, tag |-> tag]

Blank == Line("", "", "blank", "", "", "")

\* lines 150-153 and 195-198: a dependency in the store is short of progress 1.0
IsMicroBatch(self, id) ==
    \E p \in Range(self.tasks[id].dependencies) :
        p \in DOMAIN self.tasks /\ self.tasks[p].progress < 100

\* run_scheduler, lines 150-155: the line of a task of the backward queue
BackwardLine(self, id) ==
    Line("", "BACKWARD", "task", id, "VALIDATE",
         IF IsMicroBatch(self, id) THEN "Micro-batch" ELSE "")

\* run_scheduler, line 163: the line of a task of the support queue
SupportLine(id) == Line("", "SUPPORT", "task", id, "ASSIST", "")

\* run_scheduler, line 217: the line of a task of the infrastructure queue
InfrastructureLine(id) == Line("", "INFRASTRUCTURE", "task", id, "SCHEDULE", "")

\* run_scheduler with the branch of lines 202-203 removed: a task above 80 is
\* started tentatively like one above 50
ForwardLineNeverHolds(self, id) ==
    LET scrap_risk == CalculateScrapRiskScore(self.tasks, self.tasks[id])
        mb == IF IsMicroBatch(self, id) THEN "Micro-batch" ELSE ""
    IN  IF scrap_risk > 50 THEN Line("", "FORWARD", "task", id, "TENTATIVE", mb)
        ELSE Line("", "FORWARD", "task", id, "START", mb)

\* run_scheduler, lines 200-209: the line of a task of the forward queue
ForwardLine(self, id) ==
    LET scrap_risk == CalculateScrapRiskScore(self.tasks, self.tasks[id])
        mb == IF IsMicroBatch(self, id) THEN "Micro-batch" ELSE ""
    IN  IF scrap_risk > 80 THEN Line("", "FORWARD", "task", id, "HOLD", "")
        ELSE IF scrap_risk > 50 THEN Line("", "FORWARD", "task", id, "TENTATIVE", mb)
        ELSE Line("", "FORWARD", "task", id, "START", mb)

\* line 214: report[-1].startswith of the lock sign
StartsWithLock(line) == line.icon = "lock"

\* run_scheduler() of an Optimizer with the budget max_risk_inventory: the
\* report, line by line
RunScheduler(self, max_risk_inventory) ==
    LET ready == ReadyTasksOf(self)
        dir(id) == ClassifyTaskDirection(self.tasks[id])
        backward_queue == SelectSeq(ready, LAMBDA id : dir(id) = "BACKWARD")
        support_queue == SelectSeq(ready, LAMBDA id : dir(id) = "SUPPORT")
        forward_queue == SelectSeq(ready, LAMBDA id : dir(id) = "FORWARD")
        infrastructure_queue ==
            SelectSeq(ready, LAMBDA id :
                /\ dir(id) \notin {"BACKWARD", "SUPPORT", "FORWARD"}
                /\ self.tasks[id].category = INFRASTRUCTURE)
        exceeded == CalculateRiskInventory(self) >= max_risk_inventory
        head == <<Line(IF exceeded THEN "red" ELSE "green", "", "inventory", "", "", "")>>
        backward_sorted ==
            SortedDescending(backward_queue, ImpactOfTask(self, backward_queue))
        backward ==
            IF Len(backward_queue) > 0
            THEN <<Line("", "BACKWARD", "header", "", "", "")>>
                 \o [i \in DOMAIN backward_sorted |->
                        BackwardLine(self, backward_sorted[i])]
                 \o <<Blank>>
            ELSE <<>>
        target_sw == SwarmingStepSelects(self)
        swarming ==
            IF exceeded /\ Len(support_queue) = 0 /\ Len(backward_queue) > 0
               /\ target_sw # None
            THEN <<Line("", "SUPPORT", "swarm", "", "HELP", ""),
                   Line("", "SUPPORT", "swarm", target_sw[1], "TARGET",
                        TargetHwName(self, target_sw[1], "Unknown HW")),
                   Line("", "SUPPORT", "swarm", target_sw[1], "BUILD TEST",
                        TargetHwName(self, target_sw[1], "Unknown HW"))>>
            ELSE <<>>
        support ==
            IF Len(support_queue) > 0 \/ exceeded
            THEN <<Line("", "SUPPORT", "header", "", "", "")>>
                 \o [i \in DOMAIN support_queue |-> SupportLine(support_queue[i])]
                 \o swarming
                 \o <<Blank>>
            ELSE <<>>
        forward_sorted ==
            SortedDescending(forward_queue, ImpactOfTask(self, forward_queue))
        forward ==
            IF Len(forward_queue) > 0
            THEN (IF exceeded
                  THEN <<Line("", "FORWARD", "blocked", "", "", ""),
                         Line("", "FORWARD", "reason", "", "", "")>>
                  ELSE <<Line("", "FORWARD", "header", "", "", "")>>
                       \o [i \in DOMAIN forward_queue |->
                              ForwardLine(self, forward_sorted[i])])
                 \o <<Blank>>
            ELSE <<>>
        report == head \o backward \o support \o forward
        infrastructure ==
            IF /\ Len(infrastructure_queue) > 0
               /\ (Len(report) = 0 \/ StartsWithLock(report[Len(report)]))
            THEN <<Line("", "INFRASTRUCTURE", "header", "", "", "")>>
                 \o [i \in DOMAIN infrastructure_queue |->
                        InfrastructureLine(infrastructure_queue[i])]
                 \o <<Blank>>
            ELSE <<>>
        full == report \o infrastructure
    IN  IF Len(full) = 0 THEN <<Line("", "", "idle", "", "", "")>> ELSE full

(***************************************************************************)
(* The object as the state of the model, and the calls as its actions      *)
(***************************************************************************)
\* the object the variables hold
Self == Object(tasks, order, graph, saved)

\* the variables take the fields of the object o
Becomes(o) ==
    /\ tasks' = o.tasks
    /\ order' = o.order
    /\ graph' = o.graph
    /\ saved' = o.saved

\* the last call as its caller saw it: the operation, the id and the status
\* string it was given ("" when it takes none), the boolean it returned ("found"
\* for a lookup, TRUE for a call that returns nothing), whether an exception
\* left the call, and the ids it returned
Ret(op, id, arg, ok, raised, val) ==
    [op |-> op, id |-> id, arg |-> arg, ok |-> ok, raised |-> raised, val |-> val]

AddTask(task) ==
    LET r == AddTaskCall(Self, task) IN
    /\ Becomes(r.self)
    /\ ret' = Ret("add_task", task.id, "", r.ok, FALSE, NoIds)

GetTask(task_id) ==
    /\ ret' = Ret("get_task", task_id, "", task_id \in DOMAIN tasks, FALSE, NoIds)
    /\ UNCHANGED <<tasks, order, graph, saved>>

UpdateTaskProgress(task_id, progress, status_str) ==
    /\ Becomes(UpdateTaskProgressCall(Self, task_id, progress, status_str))
    /\ ret' = Ret("update_task_progress", task_id, status_str, TRUE, FALSE, NoIds)

UpdateTaskVolatility(task_id, new_volatility) ==
    /\ Becomes(UpdateTaskVolatilityCall(Self, task_id, new_volatility))
    /\ ret' = Ret("update_task_volatility", task_id, "", TRUE, FALSE, NoIds)

ResetDownstreamTasks(task_id) ==
    LET r == ResetDownstreamTasksCall(Self, task_id) IN
    /\ Becomes(r.self)
    /\ ret' = Ret("reset_downstream_tasks", task_id, "", ~r.raised, r.raised, r.val)

\* get_ready_tasks(): the ready tasks (their ids) in node order
IsReady(task_id) == IsReadyIn(Self, task_id)
GetReadyTasks == SelectSeq(graph.nodes, IsReady)

\* the object after add_task of each task of the list in turn, from position i
RECURSIVE Registered(_, _, _)
Registered(self, list, i) ==
    IF i > Len(list) THEN self
    ELSE Registered(AddTaskCall(self, list[i]).self, list, i + 1)

\* the variables hold the object o, and no call was made on it yet
Starts(o) ==
    /\ tasks = o.tasks
    /\ order = o.order
    /\ graph = o.graph
    /\ saved = o.saved
    /\ ret = Ret("init", "", "", TRUE, FALSE, NoIds)
    /\ called = {}

(***************************************************************************)
(* What the callers pass                                                   *)
(***************************************************************************)
IdList == <<"A", "B", "C">>
Ids == Range(IdList)

\* the longest dependency list a caller passes to add_task
MaxDeps == 2

\* the ids of S as a list, in the order of IdList
ListOf(S) == SelectSeq(IdList, LAMBDA x : x \in S)

\* the dependency lists: MaxDeps ids or less, none twice
DepLists == {ListOf(S) : S \in {T \in SUBSET Ids : Cardinality(T) <= MaxDeps}}

\* A new task as the creation wizard builds it (test.py, lines 222-227):
\* PENDING at progress 0.0; the volatility given here is 0.5.
NewTask(id, team, deps, milestone) ==
    Task(id, team, CRITICAL, deps, PENDING, 0, 50, milestone)

(***************************************************************************)
(* SpecInsert: every sequence of add_task calls, on three ids, with every  *)
(* dependency list of MaxDeps ids or less                                  *)
(***************************************************************************)
InsertTasks == {NewTask(id, HARDWARE, deps, <<>>) : id \in Ids, deps \in DepLists}

InitEmpty == Starts(NewObject)

InsertAddTask == (\E task \in InsertTasks : AddTask(task)) /\ UNCHANGED called

NextInsert == InsertAddTask

SpecInsert == InitEmpty /\ [][NextInsert]_vars

(***************************************************************************)
(* Claims on add_task                                                      *)
(***************************************************************************)
\* the closed walks of the graph g: a list of nodes, each with an edge to the
\* next and the last with an edge to the first
ClosedWalks(g) ==
    LET N == Range(g.nodes) IN
    {p \in UNION {[1..k -> N] : k \in 1..Cardinality(N)} :
        \A i \in DOMAIN p : <<p[i], p[(i % Len(p)) + 1]>> \in g.edges}

C2_RejectedInsertChangesNothing ==
    [][(ret'.op = "add_task" /\ ~ret'.ok) =>
           /\ graph' = graph
           /\ tasks' = tasks
           /\ order' = order
           /\ saved' = saved]_vars

\* a rejected call on a store that holds tasks and edges
C2_Witness ==
    /\ ret.op = "add_task"
    /\ ~ret.ok
    /\ graph.edges # {}
    /\ saved.tasks = tasks

\* the stored task t names x, and no edge x -> t stands for it: x was not in
\* the store when t was committed
Dangling(t, x) ==
    /\ t \in DOMAIN tasks
    /\ x \in Range(tasks[t].dependencies)
    /\ <<x, t>> \notin graph.edges

\* t would be ready if x did not count among its predecessors
ReadyBut(t, x) ==
    /\ t \in DOMAIN tasks
    /\ tasks[t].status \notin {DONE, IN_PROGRESS, WAITING_FOR_VALIDATION}
    /\ \A dep \in Predecessors(graph, t) \ {x} :
           dep \in DOMAIN tasks /\ DependencyMet(tasks[dep])

\* C9: a task committed with a dependency x that was not in the store has no
\* edge x -> task, and no later call, an add_task of x included, makes x
\* hold the task back from get_ready_tasks().
C9_DanglingNeverConstrains ==
    [][\A t \in Ids, x \in Ids :
           Dangling(t, x) => (ReadyBut(t, x) => IsReady(t))']_vars

(***************************************************************************)
(* Spec: every sequence of calls of the five methods, on two ids.  A is a  *)
(* hardware task whose milestone triggers at half of its progress, B a     *)
(* task of either team whose milestone has the default trigger_process     *)
(* 0.0; each may name itself, the other or both as dependencies.           *)
(***************************************************************************)
PairIds == {"A", "B"}

TeamsOf(id) == IF id = "A" THEN {HARDWARE} ELSE TeamType
MilestoneOf(id) == IF id = "A" THEN <<MileStone(50)>> ELSE <<MileStone(0)>>

PairTasks ==
    UNION {{NewTask(id, team, ListOf(S), MilestoneOf(id)) :
                team \in TeamsOf(id), S \in SUBSET PairIds} : id \in PairIds}

\* the progress given to update_task_progress: nothing and all of it
ProgressLevels == {0, 100}

\* the volatility given to update_task_volatility: stable, or as a new task
VolatilityLevels == {0, 50}

\* what a caller passes as status_str: the three values the command loop
\* passes (test.py, lines 282, 288 and 306) and a string that is no TaskStatus
StatusStrings == {PENDING, IN_PROGRESS, DONE, "finished"}

DoAddTask == (\E task \in PairTasks : AddTask(task)) /\ UNCHANGED called
DoGetTask == (\E id \in PairIds : GetTask(id)) /\ UNCHANGED called
DoUpdateTaskProgress ==
    /\ \E id \in PairIds, p \in ProgressLevels, s \in StatusStrings :
           UpdateTaskProgress(id, p, s)
    /\ UNCHANGED called
DoUpdateTaskVolatility ==
    /\ \E id \in PairIds, v \in VolatilityLevels : UpdateTaskVolatility(id, v)
    /\ UNCHANGED called
DoResetDownstreamTasks ==
    (\E id \in PairIds : ResetDownstreamTasks(id)) /\ UNCHANGED called

Next ==
    \/ DoAddTask
    \/ DoGetTask
    \/ DoUpdateTaskProgress
    \/ DoUpdateTaskVolatility
    \/ DoResetDownstreamTasks

Spec == InitEmpty /\ [][Next]_vars

(***************************************************************************)
(* Claims on readiness, on unknown ids and invalid status strings, and on  *)
(* the scrap risk score                                                    *)
(***************************************************************************)
\* the predecessor p lets its successors start, as the specification words it:
\* DONE, or WAITING_FOR_VALIDATION, or its progress has reached the
\* trigger_process of its first milestone, whatever that trigger is
PredecessorSatisfied(p) ==
    \/ p.status = DONE
    \/ p.status = WAITING_FOR_VALIDATION
    \/ (Len(p.milestone) > 0 /\ p.progress >= p.milestone[1].trigger_process)

\* C3: a task is in get_ready_tasks() iff its own status is not DONE,
\* IN_PROGRESS or WAITING_FOR_VALIDATION and every direct predecessor is DONE,
\* or WAITING_FOR_VALIDATION, or has progress >= the trigger_process of its
\* first milestone, for every trigger value in [0,1], 0 included.
C3_ReadyIffPredecessorsSatisfied ==
    \A t \in DOMAIN tasks :
        (t \in Range(GetReadyTasks)) <=>
            /\ tasks[t].status \notin {DONE, IN_PROGRESS, WAITING_FOR_VALIDATION}
            /\ \A p \in Predecessors(graph, t) :
                   p \in DOMAIN tasks /\ PredecessorSatisfied(tasks[p])

\* C6: update_task_progress with a status string that is no TaskStatus
\* discards the whole update: every task (progress, status, volatility) and
\* the persisted store are as before the call.
C6_InvalidStatusDiscardsUpdate ==
    [][(ret'.op = "update_task_progress" /\ ret'.arg \notin TaskStatus) =>
           (tasks' = tasks /\ saved' = saved)]_vars

\* C7: for an id that is not in the store no id-taking method raises:
\* get_task returns absent, update_task_progress and update_task_volatility
\* do nothing, reset_downstream_tasks returns no id; task map and graph are
\* unchanged.
C7_UnknownIdNeverRaises ==
    [][(/\ ret'.op \in {"get_task", "update_task_progress",
                       "update_task_volatility", "reset_downstream_tasks"}
        /\ ret'.id \notin DOMAIN tasks) =>
           /\ ~ret'.raised
           /\ ret'.val = {}
           /\ (ret'.op = "get_task" => ~ret'.ok)
           /\ tasks' = tasks
           /\ graph' = graph]_vars

\* C10: the scrap risk score of a task does not change when only its own
\* volatility is changed by update_task_volatility (also when the task names
\* its own id as a dependency), and does not fall when the volatility of
\* another task rises.
C10_RiskFromUpstreamOnly ==
    [][ret'.op = "update_task_volatility" =>
           \A t \in DOMAIN tasks :
               LET before == CalculateScrapRiskScore(tasks, tasks[t])
                   after == CalculateScrapRiskScore(tasks', tasks'[t])
               IN  /\ ret'.id = t => after = before
                   /\ (/\ ret'.id # t
                       /\ ret'.id \in DOMAIN tasks
                       /\ tasks'[ret'.id].volatility >= tasks[ret'.id].volatility)
                          => after >= before]_vars

(***************************************************************************)
(* SpecValidation: a store of three tasks, A a hardware task, B a task of  *)
(* either team and C a software task, registered in one of two orders (B   *)
(* before A leaves B's dependency on A dangling), under every sequence of  *)
(* update_task_progress calls.                                             *)
(***************************************************************************)
ValidationStores ==
    {Registered(NewObject, list, 1) :
        list \in UNION {
            {<<NewTask("A", HARDWARE, <<>>, <<>>), NewTask("B", team, <<"A">>, <<>>),
               NewTask("C", SOFTWARE, deps, <<>>)>>,
             <<NewTask("B", team, <<"A">>, <<>>), NewTask("A", HARDWARE, <<>>, <<>>),
               NewTask("C", SOFTWARE, deps, <<>>)>>} :
            team \in TeamType, deps \in {<<"A">>, <<"B">>, <<"A", "B">>}}}

InitValidation == \E o \in ValidationStores : Starts(o)

ValidationUpdateTaskProgress ==
    /\ \E id \in Ids, p \in ProgressLevels, s \in StatusStrings :
           UpdateTaskProgress(id, p, s)
    /\ UNCHANGED called

NextValidation == ValidationUpdateTaskProgress

SpecValidation == InitValidation /\ [][NextValidation]_vars

\* the tasks with an edge from h in the committed graph that SOFTWARE owns
Validators(h) == {s \in DOMAIN tasks : <<h, s>> \in graph.edges /\ tasks[s].team = SOFTWARE}

ClosureStores ==
    {Registered(NewObject, list, 1) :
        list \in UNION {
            {<<Task("A", HARDWARE, CRITICAL, <<>>, hs, 0, 50, <<>>),
               Task("B", SOFTWARE, CRITICAL, <<"A">>, s1, 0, 50, <<>>),
               Task("C", SOFTWARE, CRITICAL, deps, s2, 0, 50, <<>>)>>,
             <<Task("A", HARDWARE, CRITICAL, <<>>, hs, 0, 50, <<>>),
               Task("C", SOFTWARE, CRITICAL, deps, s2, 0, 50, <<>>),
               Task("B", SOFTWARE, CRITICAL, <<"A">>, s1, 0, 50, <<>>)>>} :
            hs \in {PENDING, IN_PROGRESS, BLOCKED},
            s1 \in {PENDING, IN_PROGRESS},
            s2 \in {PENDING, IN_PROGRESS},
            deps \in {<<"A">>, <<"A", "B">>, <<"B", "A">>}}}

InitClosure == \E o \in ClosureStores : Starts(o)

ReportDone ==
    \E id \in Ids \ called, p \in ProgressLevels :
        /\ UpdateTaskProgress(id, p, DONE)
        /\ called' = called \cup {id}

NextClosure == ReportDone

SpecClosure == InitClosure /\ [][NextClosure]_vars

\* C5: for a HARDWARE task whose SOFTWARE direct successors are two tasks
\* inserted after it with it as a dependency, once update_task_progress(.., DONE)
\* has been called for all three, in whatever order, the hardware task has
\* status DONE and volatility 0.
C5_ValidationCloses ==
    called = Ids => tasks["A"].status = DONE /\ tasks["A"].volatility = 0

\* all three were reported, the hardware task first: it waited, and the
\* second validator's report closed it
C5_Witness ==
    /\ called = Ids
    /\ ret.op = "update_task_progress"
    /\ ret.id # "A"
    /\ tasks["A"].status = DONE
    /\ tasks["A"].volatility = 0
    /\ tasks["A"].progress = 100
    /\ tasks[ret.id].progress = 0

(***************************************************************************)
(* SpecReset: a hardware task A and two software tasks B and C registered  *)
(* in that order with every choice of dependencies on the earlier ones,    *)
(* under every sequence of update_task_progress and reset_downstream_tasks *)
(* calls.                                                                  *)
(***************************************************************************)
ResetStores ==
    {Registered(NewObject, <<NewTask("A", HARDWARE, <<>>, <<>>),
                             NewTask("B", SOFTWARE, bdeps, <<>>),
                             NewTask("C", SOFTWARE, cdeps, <<>>)>>, 1) :
        bdeps \in {<<>>, <<"A">>},
        cdeps \in {<<>>, <<"A">>, <<"B">>, <<"A", "B">>}}

InitReset == \E o \in ResetStores : Starts(o)

ResetUpdateTaskProgress ==
    /\ \E id \in Ids, p \in ProgressLevels, s \in StatusStrings :
           UpdateTaskProgress(id, p, s)
    /\ UNCHANGED called

ResetResetDownstreamTasks ==
    /\ \E id \in Ids : ResetDownstreamTasks(id)
    /\ UNCHANGED called

NextReset == ResetUpdateTaskProgress \/ ResetResetDownstreamTasks

SpecReset == InitReset /\ [][NextReset]_vars

\* the ids reached from a over one or more dependency edges of the committed graph
Downstream(a) ==
    {d \in Ids : \E k \in 1..Cardinality(Ids) : \E p \in [1..(k + 1) -> Ids] :
        /\ p[1] = a
        /\ p[k + 1] = d
        /\ \A i \in 1..k : <<p[i], p[i + 1]>> \in graph.edges}

\* C8: reset_downstream_tasks(A) returns exactly the transitive descendants of
\* A that were DONE or had progress above 0 before the call, leaves each of
\* them PENDING with progress 0, and leaves A, every non-descendant and every
\* descendant with progress 0 and a status other than DONE as they were.
C8_ResetExactlyStartedDescendants ==
    [][(ret'.op = "reset_downstream_tasks" /\ ~ret'.raised) =>
           LET hit == {d \in Downstream(ret'.id) :
                          tasks[d].status = DONE \/ tasks[d].progress > 0}
           IN  /\ ret'.val = hit
               /\ \A d \in hit : tasks'[d].status = PENDING /\ tasks'[d].progress = 0
               /\ \A t \in DOMAIN tasks \ hit : tasks'[t] = tasks[t]
               /\ DOMAIN tasks' = DOMAIN tasks]_vars

\* the chain A -> B -> C with A and both descendants started: the reset of A
\* returned B and C, C reached through B only, and left A as it was
C8_Witness ==
    /\ ret.op = "reset_downstream_tasks"
    /\ ret.id = "A"
    /\ ret.val = {"B", "C"}
    /\ <<"A", "C">> \notin graph.edges
    /\ tasks["A"].progress > 0
    /\ tasks["B"].status = PENDING /\ tasks["B"].progress = 0
    /\ tasks["C"].status = PENDING /\ tasks["C"].progress = 0

(***************************************************************************)
(* SpecSchedule: three tasks A, B, C registered in that order, A and B     *)
(* CRITICAL tasks of either team, C of either team and any category, with  *)
(* every choice of dependencies on the earlier ones; tasks are then        *)
(* started and completed in any order.  The scheduler is read in every     *)
(* state, for each budget of Budgets.                                      *)
(***************************************************************************)
ScheduleStores ==
    {Registered(NewObject,
                <<Task("A", ta, CRITICAL, <<>>, PENDING, 0, 50, <<>>),
                  Task("B", tb, CRITICAL, bdeps, PENDING, 0, 50, <<>>),
                  Task("C", tc, cc, cdeps, PENDING, 0, 50, <<>>)>>, 1) :
        ta \in TeamType, tb \in TeamType, tc \in TeamType, cc \in TaskCategory,
        bdeps \in {<<>>, <<"A">>},
        cdeps \in {<<>>, <<"A">>, <<"B">>, <<"A", "B">>}}

InitSchedule == \E o \in ScheduleStores : Starts(o)

\* max_risk_inventory of the Optimizer, in hundredths
Budgets == {50, 100}

ScheduleUpdateTaskProgress ==
    /\ \E id \in Ids, s \in {IN_PROGRESS, DONE} : UpdateTaskProgress(id, 100, s)
    /\ UNCHANGED called

NextSchedule == ScheduleUpdateTaskProgress

SpecSchedule == InitSchedule /\ [][NextSchedule]_vars

\* the lines of a report that have the given lane and kind
LinesIn(report, lane, kind) ==
    {i \in DOMAIN report : report[i].lane = lane /\ report[i].kind = kind}

\* C11: whenever the risk inventory is at or above the budget, the report
\* marks the inventory as exceeded, has no FORWARD task entry, and has the
\* FORWARD blocked notice, whatever the forward queue holds, also when no
\* FORWARD task is ready.
C11_ExceededBlocksForward ==
    \A b \in Budgets :
        CalculateRiskInventory(Self) >= b =>
            LET report == RunScheduler(Self, b) IN
            /\ report[1].icon = "red"
            /\ LinesIn(report, "FORWARD", "task") = {}
            /\ LinesIn(report, "FORWARD", "blocked") # {}

\* C12: every ready task of category INFRASTRUCTURE is listed in the
\* INFRASTRUCTURE lane of every report, behind all other lanes, whether or not
\* the inventory is at or above the budget.
C12_InfrastructureAlwaysListed ==
    \A b \in Budgets : \A t \in DOMAIN tasks :
        (IsReady(t) /\ tasks[t].category = INFRASTRUCTURE) =>
            LET report == RunScheduler(Self, b) IN
            \E i \in LinesIn(report, "INFRASTRUCTURE", "task") :
                /\ report[i].id = t
                /\ \A j \in DOMAIN report :
                       j > i => report[j].lane \in {"INFRASTRUCTURE", ""}

\* the impact of the target of a backward task: the highest downstream impact
\* among its direct dependencies that HARDWARE owns, -1 when it has none
TargetImpact(t) ==
    LET targets == {d \in Range(tasks[t].dependencies) :
                       d \in DOMAIN tasks /\ tasks[d].team = HARDWARE}
    IN  IF targets = {} THEN -1
        ELSE Max({CalculateDownstreamDependencies(Self, d) : d \in targets})

\* the tasks of the BACKWARD lane of a report, in the order it lists them
BackwardLane(report) ==
    LET lane == SelectSeq(report,
                          LAMBDA l : l.lane = "BACKWARD" /\ l.kind = "task")
    IN  [i \in DOMAIN lane |-> lane[i].id]

\* C13: when the report carries the swarming recommendation, the task it
\* names is the backward task whose target hardware dependency has the highest
\* downstream impact; where several tie for the highest, it is the first of
\* them in the order of the backward queue.
C13_SwarmingPicksBottleneck ==
    \A b \in Budgets :
        LET report == RunScheduler(Self, b)
            named == {report[i].id : i \in LinesIn(report, "SUPPORT", "swarm")} \ {""}
            queue == BackwardLane(report)
            top == {i \in DOMAIN queue :
                       \A j \in DOMAIN queue : TargetImpact(queue[j]) <= TargetImpact(queue[i])}
        IN  named # {} =>
                named = {queue[CHOOSE i \in top : \A j \in top : i <= j]}

\* the recommendation is in the report, and the task it names is not the
\* first of the backward lane: its target has the higher impact
C13_Witness ==
    LET report == RunScheduler(Self, 50)
        named == {report[i].id : i \in LinesIn(report, "SUPPORT", "swarm")} \ {""}
        queue == BackwardLane(report)
    IN  /\ named # {}
        /\ Len(queue) = 2
        /\ named = {queue[2]}
        /\ TargetImpact(queue[2]) > TargetImpact(queue[1])

\* C14: get_swarming_recommendation() returns nothing iff no ready task is
\* classified BACKWARD, and otherwise names the task that the swarming step of
\* the scheduler report selects in the same state, ties on the target impact
\* included.
C14_RecommendationMatchesReport ==
    /\ GetSwarmingRecommendation(Self) = None
           <=> ~\E t \in DOMAIN tasks :
                   IsReady(t) /\ ClassifyTaskDirection(tasks[t]) = "BACKWARD"
    /\ GetSwarmingRecommendation(Self) = SwarmingStepSelects(Self)
    /\ \A b \in Budgets :
           LET report == RunScheduler(Self, b)
               named == {report[i].id : i \in LinesIn(report, "SUPPORT", "swarm")} \ {""}
           IN  named # {} => Some(CHOOSE t \in named : TRUE) = GetSwarmingRecommendation(Self)

(***************************************************************************)
(* SpecRange: the four mutating methods on two ids, the numeric arguments  *)
(* taken from below 0.0 and from above 1.0: no method and no field of Task *)
(* (models.py, lines 50-55) constrains them.                               *)
(***************************************************************************)
RangeTasks ==
    {NewTask(id, HARDWARE, ListOf(S), <<>>) : id \in PairIds, S \in SUBSET PairIds}

\* numbers a caller may pass, in hundredths
RangeLevels == {-50, 150}

RangeAddTask ==
    /\ \E task \in RangeTasks : AddTask(task)
    /\ UNCHANGED called

RangeUpdateTaskProgress ==
    /\ \E id \in PairIds, p \in RangeLevels : UpdateTaskProgress(id, p, IN_PROGRESS)
    /\ UNCHANGED called

RangeUpdateTaskVolatility ==
    /\ \E id \in PairIds, v \in RangeLevels : UpdateTaskVolatility(id, v)
    /\ UNCHANGED called

RangeResetDownstreamTasks ==
    /\ \E id \in PairIds : ResetDownstreamTasks(id)
    /\ UNCHANGED called

NextRange ==
    \/ RangeAddTask
    \/ RangeUpdateTaskProgress
    \/ RangeUpdateTaskVolatility
    \/ RangeResetDownstreamTasks

SpecRange == InitEmpty /\ [][NextRange]_vars

\* C15: after any sequence of add_task, update_task_progress,
\* update_task_volatility and reset_downstream_tasks calls with arbitrary
\* numbers, every task of the store has its progress and its volatility
\* between 0.0 and 1.0.
C15_ProgressAndVolatilityInRange ==
    \A t \in DOMAIN tasks :
        /\ 0 <= tasks[t].progress /\ tasks[t].progress <= 100
        /\ 0 <= tasks[t].volatility /\ tasks[t].volatility <= 100

\* the sum of the volatilities (x 100) of the dependencies of task, each
\* dependency of the list that is in the store counted
DependencyVolatility(task) ==
    SumVolatility(tasks, task.dependencies, 1)

\* C20: the scrap risk score is 0 for a task of category INFRASTRUCTURE or
\* owned by SOFTWARE; otherwise it is the sum of volatility x 100 over the
\* task's direct dependencies clamped to [0,100]; so it is always between 0
\* and 100.
C20_ScrapRiskClamped ==
    \A t \in DOMAIN tasks :
        LET score == CalculateScrapRiskScore(tasks, tasks[t])
            sum == DependencyVolatility(tasks[t])
        IN  /\ (tasks[t].category = INFRASTRUCTURE \/ tasks[t].team = SOFTWARE)
                   => score = 0
            /\ (tasks[t].category # INFRASTRUCTURE /\ tasks[t].team # SOFTWARE)
                   => score = (IF sum < 0 THEN 0 ELSE IF sum > 100 THEN 100 ELSE sum)
            /\ 0 <= score /\ score <= 100

\* C16: ids are never reused: once a task is committed under an id, no later
\* add_task with that id replaces or alters the record stored for the id or
\* adds edges into its node.
C16_IdsNeverReused ==
    [][(ret'.op = "add_task" /\ ret'.id \in DOMAIN tasks) =>
           /\ tasks'[ret'.id] = tasks[ret'.id]
           /\ {e \in graph'.edges : e[2] = ret'.id} = {e \in graph.edges : e[2] = ret'.id}]_vars

\* C19: calculate_downstream_dependencies(id) is the number of direct
\* successors of id in the committed graph that are not DONE, in every state,
\* also where a task listing id as a dependency was inserted before id.
C19_ImpactCountsGraphSuccessors ==
    \A id \in DOMAIN tasks :
        CalculateDownstreamDependencies(Self, id) =
            Cardinality({s \in DOMAIN tasks :
                            <<id, s>> \in graph.edges /\ tasks[s].status # DONE})

\* the dependencies of s that are in the store and owned by HARDWARE
HardwareDependencies(s) ==
    {h \in Range(tasks[s].dependencies) : h \in DOMAIN tasks /\ tasks[h].team = HARDWARE}

C18_PlainStatusHasNoSideEffect ==
    [][(/\ ret'.op = "update_task_progress"
        /\ ret'.arg \in TaskStatus \ {DONE}
        /\ ret'.id \in DOMAIN tasks) =>
           /\ tasks' = [tasks EXCEPT ![ret'.id].progress = tasks'[ret'.id].progress,
                                     ![ret'.id].status = ret'.arg]
           /\ graph' = graph]_vars

\* a task with volatility left was set IN_PROGRESS at progress 1.0 while
\* another task waits for validation
C18_Witness ==
    /\ ret.op = "update_task_progress"
    /\ ret.arg = IN_PROGRESS
    /\ ret.id \in DOMAIN tasks
    /\ tasks[ret.id].status = IN_PROGRESS
    /\ tasks[ret.id].progress = 100
    /\ tasks[ret.id].volatility > 0
    /\ \E t \in DOMAIN tasks : t # ret.id /\ tasks[t].status = WAITING_FOR_VALIDATION

RECURSIVE SumOver(_, _)
\* the sum of f over the set S
SumOver(S, f) ==
    IF S = {} THEN 0
    ELSE LET x == CHOOSE y \in S : TRUE IN f[x] + SumOver(S \ {x}, f)

\* the tasks that carry risk: owned by HARDWARE, not DONE, neither SUPPORT nor
\* INFRASTRUCTURE
RiskCarriers ==
    {t \in DOMAIN tasks :
        /\ tasks[t].team = HARDWARE
        /\ tasks[t].status # DONE
        /\ tasks[t].category \notin {SUPPORT, INFRASTRUCTURE}}

LaneRank(lane) ==
    CASE lane = "BACKWARD" -> 1
      [] lane = "SUPPORT" -> 2
      [] lane = "FORWARD" -> 3
      [] lane = "INFRASTRUCTURE" -> 4

\* C22: in every report the risk-inventory line comes first and the lanes come
\* in the order BACKWARD, SUPPORT, FORWARD, INFRASTRUCTURE; the BACKWARD lane
\* lists exactly the ready SOFTWARE tasks that are not SUPPORT, by falling
\* downstream impact, and is the same whether or not the inventory is at or
\* above the budget.
C22_ReportOrderAndBackwardLane ==
    /\ \A b \in Budgets :
           LET report == RunScheduler(Self, b)
               lane == BackwardLane(report)
           IN  /\ report[1].kind = "inventory"
               /\ \A i \in DOMAIN report : i > 1 => report[i].kind # "inventory"
               /\ \A i, j \in DOMAIN report :
                      (i < j /\ report[i].lane # "" /\ report[j].lane # "")
                          => LaneRank(report[i].lane) <= LaneRank(report[j].lane)
               /\ Range(lane) = {t \in DOMAIN tasks :
                                    /\ IsReady(t)
                                    /\ tasks[t].team = SOFTWARE
                                    /\ tasks[t].category # SUPPORT}
               /\ \A i, j \in DOMAIN lane : i # j => lane[i] # lane[j]
               /\ \A i, j \in DOMAIN lane :
                      i < j => CalculateDownstreamDependencies(Self, lane[i])
                                   >= CalculateDownstreamDependencies(Self, lane[j])
    /\ \A b1, b2 \in Budgets :
           SelectSeq(RunScheduler(Self, b1), LAMBDA l : l.lane = "BACKWARD")
               = SelectSeq(RunScheduler(Self, b2), LAMBDA l : l.lane = "BACKWARD")

\* two ready software tasks are listed against their order in the store, the
\* one with the higher impact first, and the inventory is at the lower budget
\* and under the higher one
C22_Witness ==
    LET lane == BackwardLane(RunScheduler(Self, 50)) IN
    /\ lane = <<"B", "A">>
    /\ CalculateDownstreamDependencies(Self, "B") > CalculateDownstreamDependencies(Self, "A")
    /\ RunScheduler(Self, 50)[1].icon = "red"
    /\ RunScheduler(Self, 100)[1].icon = "green"

(***************************************************************************)
(* SpecForward: a task A of either team and two hardware tasks B and C     *)
(* that depend on the earlier ones, A and B with a milestone at 0.5, with  *)
(* volatilities that put the scrap risk of B and C on each side of the     *)
(* thresholds 50 and 80; A and B are started (progress 0.5) and completed  *)
(* in any order.                                                           *)
(***************************************************************************)
ForwardStores ==
    {Registered(NewObject,
                <<Task("A", ta, CRITICAL, <<>>, PENDING, 0, va, <<MileStone(50)>>),
                  Task("B", HARDWARE, CRITICAL, bdeps, PENDING, 0, vb, <<MileStone(50)>>),
                  Task("C", HARDWARE, cc, cdeps, PENDING, 0, 30, <<>>)>>, 1) :
        ta \in TeamType, va \in {30, 60}, vb \in {30, 60},
        cc \in {CRITICAL, INFRASTRUCTURE},
        bdeps \in {<<>>, <<"A">>},
        cdeps \in {<<"A">>, <<"B">>, <<"A", "B">>}}

InitForward == \E o \in ForwardStores : Starts(o)

\* max_risk_inventory of the Optimizer, in hundredths
ForwardBudgets == {100, 250}

ForwardUpdateTaskProgress ==
    /\ \E id \in {"A", "B"} :
           \/ UpdateTaskProgress(id, 50, IN_PROGRESS)
           \/ UpdateTaskProgress(id, 100, DONE)
    /\ UNCHANGED called

NextForward == ForwardUpdateTaskProgress

SpecForward == InitForward /\ [][NextForward]_vars

\* the task lines of the FORWARD lane of a report, in its order
ForwardLane(report) ==
    SelectSeq(report, LAMBDA l : l.lane = "FORWARD" /\ l.kind = "task")

TargetHardware(s) ==
    {h \in HardwareDependencies(s) :
        \A g \in HardwareDependencies(s) :
            CalculateDownstreamDependencies(Self, g)
                <= CalculateDownstreamDependencies(Self, h)}

\* C24: the bottleneck that a swarming recommendation names, in the SUPPORT
\* lane of the report and in the action of get_swarming_recommendation, is
\* the target hardware dependency of the task selected: its direct dependency
\* owned by HARDWARE with the highest downstream impact, also for a task with
\* several dependencies.
C24_BottleneckIsTargetHardware ==
    /\ \A b \in Budgets :
           LET report == RunScheduler(Self, b) IN
           \A i \in LinesIn(report, "SUPPORT", "swarm") :
               (report[i].id # "" /\ HardwareDependencies(report[i].id) # {})
                   => report[i].tag \in TargetHardware(report[i].id)
    /\ LET selected == GetSwarmingRecommendation(Self) IN
       (selected # None /\ HardwareDependencies(selected[1]) # {})
           => GetSwarmingRecommendationAction(Self)[1] \in TargetHardware(selected[1])

(***************************************************************************)
(* The read-only methods as calls: the object after the call and the       *)
(* value returned                                                          *)
(***************************************************************************)
\* get_ready_tasks() that also starts what it returns: every ready task is
\* set IN_PROGRESS
GetReadyTasksCallStarts(self) ==
    [self |-> [self EXCEPT !.tasks =
                   [t \in DOMAIN self.tasks |->
                       IF IsReadyIn(self, t)
                       THEN [self.tasks[t] EXCEPT !.status = IN_PROGRESS]
                       ELSE self.tasks[t]]],
     val |-> ReadyTasksOf(self)]

\* get_ready_tasks()
GetReadyTasksCall(self) == [self |-> self, val |-> ReadyTasksOf(self)]

\* calculate_scrap_risk_score(task) for the task stored under task_id
CalculateScrapRiskScoreCall(self, task_id) ==
    [self |-> self, val |-> CalculateScrapRiskScore(self.tasks, self.tasks[task_id])]

\* calculate_risk_inventory()
CalculateRiskInventoryCall(self) == [self |-> self, val |-> CalculateRiskInventory(self)]

\* calculate_downstream_dependencies(task_id)
CalculateDownstreamDependenciesCall(self, task_id) ==
    [self |-> self, val |-> CalculateDownstreamDependencies(self, task_id)]

\* get_swarming_recommendation(): the pair returned, or None
GetSwarmingRecommendationCall(self) ==
    [self |-> self,
     val |-> IF GetSwarmingRecommendation(self) = None THEN None
             ELSE <<GetSwarmingRecommendation(self)[1],
                    GetSwarmingRecommendationAction(self)[1]>>]

\* run_scheduler() of an Optimizer with the budget max_risk_inventory
RunSchedulerCall(self, max_risk_inventory) ==
    [self |-> self, val |-> RunScheduler(self, max_risk_inventory)]

\* a read-only call r made as op(id) by an Optimizer with the given budget:
\* ret keeps the budget with the value returned
Read(op, id, budget, r) ==
    /\ Becomes(r.self)
    /\ ret' = Ret(op, id, "", TRUE, FALSE, {<<budget, r.val>>})

(***************************************************************************)
(* SpecRead: the stores of SpecValidation, tasks started and completed in  *)
(* any order, and every read-only method called in every state             *)
(***************************************************************************)
ReadUpdateTaskProgress ==
    /\ \E id \in Ids, s \in {IN_PROGRESS, DONE} : UpdateTaskProgress(id, 100, s)
    /\ UNCHANGED called

ReadGetReadyTasks ==
    /\ \E b \in Budgets : Read("get_ready_tasks", "", b, GetReadyTasksCall(Self))
    /\ UNCHANGED called

ReadCalculateScrapRiskScore ==
    /\ \E b \in Budgets, id \in DOMAIN tasks :
           Read("calculate_scrap_risk_score", id, b, CalculateScrapRiskScoreCall(Self, id))
    /\ UNCHANGED called

ReadCalculateRiskInventory ==
    /\ \E b \in Budgets :
           Read("calculate_risk_inventory", "", b, CalculateRiskInventoryCall(Self))
    /\ UNCHANGED called

ReadCalculateDownstreamDependencies ==
    /\ \E b \in Budgets, id \in Ids :
           Read("calculate_downstream_dependencies", id, b,
                CalculateDownstreamDependenciesCall(Self, id))
    /\ UNCHANGED called

ReadGetSwarmingRecommendation ==
    /\ \E b \in Budgets :
           Read("get_swarming_recommendation", "", b, GetSwarmingRecommendationCall(Self))
    /\ UNCHANGED called

ReadRunScheduler ==
    /\ \E b \in Budgets : Read("run_scheduler", "", b, RunSchedulerCall(Self, b))
    /\ UNCHANGED called

NextRead ==
    \/ ReadUpdateTaskProgress
    \/ ReadGetReadyTasks
    \/ ReadCalculateScrapRiskScore
    \/ ReadCalculateRiskInventory
    \/ ReadCalculateDownstreamDependencies
    \/ ReadGetSwarmingRecommendation
    \/ ReadRunScheduler

SpecRead == InitValidation /\ [][NextRead]_vars

ReadOps ==
    {"get_ready_tasks", "calculate_scrap_risk_score", "calculate_risk_inventory",
     "calculate_downstream_dependencies", "get_swarming_recommendation",
     "run_scheduler"}

\* what the read op(id) returns in the current state to an Optimizer with
\* the given budget
Answer(op, id, budget) ==
    CASE op = "get_ready_tasks" -> GetReadyTasksCall(Self).val
      [] op = "calculate_scrap_risk_score" -> CalculateScrapRiskScoreCall(Self, id).val
      [] op = "calculate_risk_inventory" -> CalculateRiskInventoryCall(Self).val
      [] op = "calculate_downstream_dependencies" ->
             CalculateDownstreamDependenciesCall(Self, id).val
      [] op = "get_swarming_recommendation" -> GetSwarmingRecommendationCall(Self).val
      [] op = "run_scheduler" -> RunSchedulerCall(Self, budget).val

LoadFile ==
    /\ Becomes(Constructed(saved))
    /\ ret' = Ret("load_file", "", "", TRUE, FALSE, NoIds)

RestartAddTask ==
    /\ \E task \in RangeTasks : AddTask(task)
    /\ UNCHANGED called

RestartLoadFile ==
    /\ LoadFile
    /\ UNCHANGED called

NextRestart == RestartAddTask \/ RestartLoadFile

SpecRestart == InitEmpty /\ [][NextRestart]_vars

\* C26: add_task of a task whose id is not yet in the store is never rejected
\* for a cycle, whatever its dependency list, its own id included: the
\* insertion always commits.
C26_NewIdAlwaysCommits ==
    [][(ret'.op = "add_task" /\ ret'.id \notin DOMAIN tasks) =>
           (ret'.ok /\ ret'.id \in DOMAIN tasks')]_vars

\* C27: the graph mirrors the task map: its nodes are the keys of the task
\* map, and every committed edge (d, t) has d among the dependencies of the
\* record stored for t.
C27_GraphMirrorsTaskMap ==
    /\ Range(graph.nodes) = DOMAIN tasks
    /\ \A e \in graph.edges :
           e[2] \in DOMAIN tasks /\ e[1] \in Range(tasks[e[2]].dependencies)

\* C28: a HARDWARE task is made DONE by the completion of a SOFTWARE task only
\* if it was WAITING_FOR_VALIDATION before: one that is PENDING, IN_PROGRESS
\* or BLOCKED is not promoted by update_task_progress on one of its validators.
C28_OnlyWaitingHardwareIsPromoted ==
    [][(/\ ret'.op = "update_task_progress"
        /\ ret'.arg = DONE
        /\ ret'.id \in DOMAIN tasks
        /\ tasks[ret'.id].team = SOFTWARE) =>
           \A h \in DOMAIN tasks :
               (/\ tasks[h].team = HARDWARE
                /\ tasks[h].status \in {PENDING, IN_PROGRESS, BLOCKED})
                   => tasks'[h].status # DONE]_vars

\* C29: reset_downstream_tasks is idempotent: a second call for the same id
\* right after the first returns nothing and changes no task; and after any
\* call every transitive descendant of the id has progress 0 and a status
\* other than DONE.
C29_ResetIdempotent ==
    [][(ret'.op = "reset_downstream_tasks" /\ ~ret'.raised) =>
           /\ \A a \in PairIds :
                  ret'.id = a =>
                      /\ ResetDownstreamTasksCall(Self, a).val' = {}
                      /\ ResetDownstreamTasksCall(Self, a).self.tasks' = tasks'
           /\ \A a \in PairIds, d \in PairIds :
                  (ret'.id = a /\ d \in Descendants(graph, a)')
                      => (tasks[d].progress = 0 /\ tasks[d].status # DONE)']_vars

\* check_readiness_details(graph, task), test.py lines 31-65: the annotation
\* of the status board for the task stored under task_id
CheckReadinessDetails(self, task_id) ==
    LET task == self.tasks[task_id]
        blockers == {dep \in Range(task.dependencies) :
                        /\ dep \in DOMAIN self.tasks
                        /\ ~DependencyMet(self.tasks[dep])}
    IN  IF task.status = DONE THEN "Done"
        ELSE IF task.status = WAITING_FOR_VALIDATION THEN "Wait Validation."
        ELSE IF task.status = IN_PROGRESS THEN "In Progress (Active)"
        ELSE IF blockers # {} THEN "Wait"
        ELSE "Ready."

\* C30: the readiness shown on the status board agrees with the engine: for a
\* task that is not DONE, IN_PROGRESS or WAITING_FOR_VALIDATION,
\* check_readiness_details says Ready iff the task is in get_ready_tasks(),
\* also after a dependency was inserted out of order.
C30_BoardAgreesWithEngine ==
    \A t \in DOMAIN tasks :
        tasks[t].status \notin {DONE, IN_PROGRESS, WAITING_FOR_VALIDATION} =>
            (CheckReadinessDetails(Self, t) = "Ready." <=> t \in Range(GetReadyTasks))

====
